---- MODULE Spec2Model ----
(***************************************************************************)
(* Pictures-Manipulation: two scripts that turn an image file into a       *)
(* stylised derivative.                                                    *)
(*                                                                         *)
(*   picture_to_bichrome.py   portrait_to_bichrome_transparent:            *)
(*       RGBA image -> black / accent-colour image, alpha kept.            *)
(*   picture_to_sketch.py     photo_to_sketch:                             *)
(*       image -> pencil sketch (invert, blur, invert, divide).            *)
(*                                                                         *)
(* Each script is modelled statement by statement: pc is the position in   *)
(* the script, the other variables are the script's local variables, what  *)
(* it printed, the exception in flight and the file it wrote.  All samples *)
(* are 8-bit (numpy uint8), images are records                             *)
(*     [h |-> rows, w |-> columns, ch |-> channels, px |-> pixel data]     *)
(* with px[<<r, c>>] the tuple of the pixel's samples in OpenCV's order    *)
(* (B, G, R, A); ch = 1 stands for a 2-D array (len(img.shape) == 2).      *)
(* An optional value is <<>> (Python's None / not yet assigned) or <<v>>.  *)
(***************************************************************************)
EXTENDS Integers, Sequences, FiniteSets, TLC

VARIABLES
    pc,                 \* position in the script
    file_path,          \* what the file dialog returned ("" when cancelled)
    disk,               \* what lies at file_path: missing, undecodable, image
    color,              \* bichrome: the (R, G, B) tuple of the colour chooser
    threshold,          \* bichrome: the threshold parameter
    img,                \* cv2.imread's result
    alpha,              \* the alpha plane split off a 4-channel image
    gray,               \* the luma plane
    bichrome,           \* bichrome: cv2.threshold's result
    inverted,           \* sketch: bitwise_not(gray)
    blurred,            \* sketch: GaussianBlur(inverted)
    inverted_blurred,   \* sketch: bitwise_not(blurred)
    result,             \* bichrome: the output image under construction
    sketch,             \* sketch: cv2.divide's result, then the merged image
    written,            \* the file cv2.imwrite produced
    printed,            \* the messages print() wrote, in order
    raised              \* the exception raised by the transform

vars == <<pc, file_path, disk, color, threshold, img, alpha, gray, bichrome,
          inverted, blurred, inverted_blurred, result, sketch, written, printed,
          raised>>

-----------------------------------------------------------------------------
(* Bounds of the model: the largest image it enumerates.                   *)
MaxH == 2
MaxW == 2

(* Program constants.                                                      *)
DefaultThreshold == 127
MaxVal == 255
KSize == 21
DivideScale == 256

None == <<>>
Some(v) == <<v>>
Val(o) == o[1]

Min(a, b) == IF a < b THEN a ELSE b
Max(a, b) == IF a > b THEN a ELSE b

-----------------------------------------------------------------------------
(* Images.                                                                 *)
Positions(h, w) == (0 .. h - 1) \X (0 .. w - 1)

(* A numpy array holds its samples: Array(f) is the function f with every  *)
(* element computed once.                                                  *)
Array(f) == f @@ <<>>

Image(h, w, ch, f) == [h |-> h, w |-> w, ch |-> ch, px |-> Array(f)]

(* Variant of Channel that reads the index as 1-based: it returns the      *)
(* channel before the one asked for.                                       *)
Channel_OffByOne(im, i) ==
    Image(im.h, im.w, 1, [p \in Positions(im.h, im.w) |-> <<im.px[p][i]>>])

(* numpy slicing img[:,:,i:j] (0-based, j exclusive) and img[:,:,i].       *)
Channels(im, i, j) ==
    Image(im.h, im.w, j - i,
          [p \in Positions(im.h, im.w) |-> SubSeq(im.px[p], i + 1, j)])

Channel(im, i) ==
    Image(im.h, im.w, 1, [p \in Positions(im.h, im.w) |-> <<im.px[p][i + 1]>>])

(* An image with one pixel fg at position s on a background bg.            *)
SpotImage(h, w, ch, bg, fg, s) ==
    Image(h, w, ch, [p \in Positions(h, w) |-> IF p = s THEN fg ELSE bg])

SpotImages(ch, pixels) ==
    UNION { UNION { { SpotImage(h, w, ch, bg, fg, s) :
                        bg \in pixels, fg \in pixels, s \in Positions(h, w) } :
                    w \in 1 .. MaxW } :
            h \in 1 .. MaxH }

WithAlpha(pixels, alphas) == { p \o <<a>> : p \in pixels, a \in alphas }

(* File paths: directory, name, extension (os.path.split / splitext).      *)
Path(dir, name, ext) == [dir |-> dir, name |-> name, ext |-> ext]
NoPath == Path("", "", "")

OutputPath(input_path, suffix) ==
    Path(input_path.dir, <<input_path.name, suffix>>, input_path.ext)

Missing == [kind |-> "missing", data |-> None]
Undecodable == [kind |-> "undecodable", data |-> None]
Decodable(im) == [kind |-> "image", data |-> Some(im)]

-----------------------------------------------------------------------------
(* cv2.cvtColor(rgb, cv2.COLOR_BGR2GRAY) on 8-bit samples: fixed-point     *)
(* luma 0.114 B + 0.587 G + 0.299 R with 15 fractional bits, rounded.      *)
GrayShift == 15
BY15 == 3735
GY15 == 19235
RY15 == 9798

Luma(b, g, r) ==
    (b * BY15 + g * GY15 + r * RY15 + 2 ^ (GrayShift - 1)) \div (2 ^ GrayShift)

cvtColorBGR2GRAY(rgb) ==
    Image(rgb.h, rgb.w, 1,
          [p \in Positions(rgb.h, rgb.w) |->
              <<Luma(rgb.px[p][1], rgb.px[p][2], rgb.px[p][3])>>])

-----------------------------------------------------------------------------
(* numpy helpers of picture_to_bichrome.py.                                *)

(* np.zeros((h, w, ch), dtype=np.uint8)                                    *)
Zeros(h, w, ch) == Image(h, w, ch, [p \in Positions(h, w) |-> [i \in 1 .. ch |-> 0]])

(* res[mask == value] = pixel                                              *)
MaskAssign(res, mask, value, pixel) ==
    [res EXCEPT !.px = [p \in Positions(res.h, res.w) |->
                           IF mask.px[p][1] = value THEN pixel ELSE res.px[p]]]

(* Variant of SetChannel that leaves the image as it is.                   *)
SetChannel_Skipped(res, i, plane) == res

(* res[:,:,i] = plane                                                      *)
SetChannel(res, i, plane) ==
    [res EXCEPT !.px = [p \in Positions(res.h, res.w) |->
                           [res.px[p] EXCEPT ![i + 1] = plane.px[p][1]]]]

(* Variant of Reversed that keeps the (R, G, B) order.                     *)
Reversed_Identity(c) == c

(* color[::-1]                                                             *)
Reversed(c) == [i \in 1 .. Len(c) |-> c[Len(c) + 1 - i]]

(* Variant of ThresholdBinary with src >= thresh.                          *)
ThresholdBinary_Inclusive(src, thresh, maxval) ==
    Image(src.h, src.w, 1,
          [p \in Positions(src.h, src.w) |->
              <<IF src.px[p][1] >= thresh THEN maxval ELSE 0>>])

(* cv2.threshold(src, thresh, maxval, cv2.THRESH_BINARY):                  *)
(* dst = maxval where src > thresh, 0 elsewhere.                           *)
ThresholdBinary(src, thresh, maxval) ==
    Image(src.h, src.w, 1,
          [p \in Positions(src.h, src.w) |->
              <<IF src.px[p][1] > thresh THEN maxval ELSE 0>>])

(* Lines 56-64: the black canvas and the two mask assignments.             *)
Colorize(bi, c) ==
    LET canvas == Zeros(bi.h, bi.w, 4)
        color_bgr == Reversed(c)
        dark == MaskAssign(canvas, bi, 0, <<0, 0, 0, MaxVal>>)
    IN  MaskAssign(dark, bi, MaxVal, color_bgr \o <<MaxVal>>)

-----------------------------------------------------------------------------
(* Inputs of the bichrome script.                                          *)
PortraitPath == Path("pictures", "portrait", ".png")

BichromeBGR == { <<0, 0, 0>>, <<127, 127, 127>>, <<128, 128, 128>>,
                 <<255, 255, 255>>, <<10, 200, 30>> }
BichromeAlphas == { 0, 255 }

(* The 2x2 example: luma samples 100, 150, 200, 250 in row-major order.    *)
ExampleImage ==
    Image(2, 2, 4,
          [p \in Positions(2, 2) |->
              CASE p = <<0, 0>> -> <<100, 100, 100, 0>>
                [] p = <<0, 1>> -> <<150, 150, 150, 64>>
                [] p = <<1, 0>> -> <<200, 200, 200, 128>>
                [] OTHER        -> <<250, 250, 250, 255>>])

BichromeImages ==
    SpotImages(4, WithAlpha(BichromeBGR, BichromeAlphas))
    \cup SpotImages(3, { <<0, 0, 0>>, <<255, 255, 255>> })
    \cup SpotImages(1, { <<0>>, <<255>> })
    \cup SpotImages(2, { <<0, 255>> })
    \cup { ExampleImage }

BichromeDisks == { Missing, Undecodable } \cup { Decodable(im) : im \in BichromeImages }

(* (R, G, B) tuples of the colour chooser.                                 *)
Colors == { <<0, 255, 0>>, <<255, 128, 1>>, <<0, 0, 0>> }

(* select_image_and_color passes the default; the parameter of             *)
(* portrait_to_bichrome_transparent admits any 8-bit value.                *)
Thresholds == { 0, DefaultThreshold, 255 }

-----------------------------------------------------------------------------
(* picture_to_bichrome.py                                                  *)

InitBichrome ==
    /\ pc = "b_select_file"
    /\ file_path = NoPath
    /\ disk = Missing
    /\ color = None
    /\ threshold = DefaultThreshold
    /\ img = None
    /\ alpha = None
    /\ gray = None
    /\ bichrome = None
    /\ inverted = None
    /\ blurred = None
    /\ inverted_blurred = None
    /\ result = None
    /\ sketch = None
    /\ written = None
    /\ printed = <<>>
    /\ raised = ""

(* Lines 83-88, 97-98: the file dialog.                                    *)
B_SelectFile ==
    /\ pc = "b_select_file"
    /\ \/ /\ file_path' = NoPath
          /\ disk' = Missing
          /\ printed' = Append(printed, "No file selected")
          /\ pc' = "exit"
       \/ /\ file_path' = PortraitPath
          /\ disk' \in BichromeDisks
          /\ printed' = printed
          /\ pc' = "b_select_color"
    /\ UNCHANGED <<color, threshold, img, alpha, gray, bichrome, inverted,
                   blurred, inverted_blurred, result, written, raised,
                   sketch>>

(* Lines 89-96: the colour chooser, then the call.                         *)
B_SelectColor ==
    /\ pc = "b_select_color"
    /\ \/ /\ color' = None
          /\ threshold' = threshold
          /\ printed' = Append(printed, "No color selected")
          /\ pc' = "exit"
       \/ /\ \E c \in Colors : color' = Some(c)
          /\ threshold' \in Thresholds
          /\ printed' = printed
          /\ pc' = "b_check_exists"
    /\ UNCHANGED <<file_path, disk, img, alpha, gray, bichrome, inverted,
                   blurred, inverted_blurred, result, written, raised,
                   sketch>>

(* Lines 32-33.                                                            *)
B_CheckExists ==
    /\ pc = "b_check_exists"
    /\ IF disk.kind = "missing"
       THEN /\ raised' = "FileNotFoundError"
            /\ pc' = "b_except"
       ELSE /\ raised' = raised
            /\ pc' = "b_read"
    /\ UNCHANGED <<file_path, disk, color, threshold, img, alpha, gray, bichrome,
                   inverted, blurred, inverted_blurred, result, written, printed,
                   sketch>>

(* Lines 36-40: cv2.imread returns None for what it cannot decode.         *)
B_Read ==
    /\ pc = "b_read"
    /\ img' = disk.data
    /\ IF disk.data = None
       THEN /\ raised' = "ValueError: Unable to read the image"
            /\ pc' = "b_except"
       ELSE /\ raised' = raised
            /\ pc' = "b_check_alpha"
    /\ UNCHANGED <<file_path, disk, color, threshold, alpha, gray, bichrome,
                   inverted, blurred, inverted_blurred, result, written, printed,
                   sketch>>

(* Variant of B_CheckAlpha that prints the message and returns, as         *)
(* photo_to_sketch does, instead of raising.                               *)
B_CheckAlpha_PrintOnly ==
    /\ pc = "b_check_alpha"
    /\ IF Val(img).ch = 1 \/ Val(img).ch # 4
       THEN /\ printed' = Append(printed, "The input image must have an alpha channel")
            /\ pc' = "exit"
       ELSE /\ printed' = printed
            /\ pc' = "b_split"
    /\ UNCHANGED <<file_path, disk, color, threshold, img, alpha, gray, bichrome,
                   inverted, blurred, inverted_blurred, result, sketch, written,
                   raised>>

(* Lines 43-44: len(img.shape) != 3 or img.shape[2] != 4.                  *)
B_CheckAlpha ==
    /\ pc = "b_check_alpha"
    /\ IF Val(img).ch = 1 \/ Val(img).ch # 4
       THEN /\ raised' = "ValueError: The input image must have an alpha channel"
            /\ pc' = "b_except"
       ELSE /\ raised' = raised
            /\ pc' = "b_split"
    /\ UNCHANGED <<file_path, disk, color, threshold, img, alpha, gray, bichrome,
                   inverted, blurred, inverted_blurred, result, written, printed,
                   sketch>>

(* Lines 47-51: split the channels, convert to grayscale.                  *)
B_Gray ==
    /\ pc = "b_split"
    /\ alpha' = Some(Channel(Val(img), 3))
    /\ gray' = Some(cvtColorBGR2GRAY(Channels(Val(img), 0, 3)))
    /\ pc' = "b_threshold"
    /\ UNCHANGED <<file_path, disk, color, threshold, img, bichrome, inverted,
                   blurred, inverted_blurred, result, written, printed, raised,
                   sketch>>

(* Line 54.                                                                *)
B_Threshold ==
    /\ pc = "b_threshold"
    /\ bichrome' = Some(ThresholdBinary(Val(gray), threshold, MaxVal))
    /\ pc' = "b_colorize"
    /\ UNCHANGED <<file_path, disk, color, threshold, img, alpha, gray, inverted,
                   blurred, inverted_blurred, result, written, printed, raised,
                   sketch>>

(* Lines 57-64.                                                            *)
B_Colorize ==
    /\ pc = "b_colorize"
    /\ result' = Some(Colorize(Val(bichrome), Val(color)))
    /\ pc' = "b_apply_alpha"
    /\ UNCHANGED <<file_path, disk, color, threshold, img, alpha, gray, bichrome,
                   inverted, blurred, inverted_blurred, written, printed, raised,
                   sketch>>

(* Line 67.                                                                *)
B_ApplyAlpha ==
    /\ pc = "b_apply_alpha"
    /\ result' = Some(SetChannel(Val(result), 3, Val(alpha)))
    /\ pc' = "b_write"
    /\ UNCHANGED <<file_path, disk, color, threshold, img, alpha, gray, bichrome,
                   inverted, blurred, inverted_blurred, written, printed, raised,
                   sketch>>

(* Lines 70-77: the output path, cv2.imwrite, the message; the call        *)
(* returns and the script ends.                                            *)
B_Write ==
    /\ pc = "b_write"
    /\ written' = Some([path |-> OutputPath(file_path, "_bichrome"),
                        image |-> Val(result)])
    /\ printed' = Append(printed, "Bichrome transparent image saved")
    /\ pc' = "exit"
    /\ UNCHANGED <<file_path, disk, color, threshold, img, alpha, gray, bichrome,
                   inverted, blurred, inverted_blurred, result, raised,
                   sketch>>

(* Lines 93-94: the caller's except clause.                                *)
B_Except ==
    /\ pc = "b_except"
    /\ printed' = Append(printed, "An error occurred")
    /\ pc' = "exit"
    /\ UNCHANGED <<file_path, disk, color, threshold, img, alpha, gray, bichrome,
                   inverted, blurred, inverted_blurred, result, written, raised,
                   sketch>>

NextBichrome ==
    \/ B_SelectFile
    \/ B_SelectColor
    \/ B_CheckExists
    \/ B_Read
    \/ B_CheckAlpha
    \/ B_Gray
    \/ B_Threshold
    \/ B_Colorize
    \/ B_ApplyAlpha
    \/ B_Write
    \/ B_Except

SpecBichrome == InitBichrome /\ [][NextBichrome]_vars

-----------------------------------------------------------------------------
(* OpenCV operations of picture_to_sketch.py on 8-bit planes.              *)

Plane(h, w, f) == Image(h, w, 1, [p \in Positions(h, w) |-> <<f[p]>>])

(* cv2.bitwise_not on uint8: every bit flipped, 255 - v.                   *)
BitwiseNot(src) ==
    Plane(src.h, src.w, [p \in Positions(src.h, src.w) |-> MaxVal - src.px[p][1]])

(* Border handling of GaussianBlur (BORDER_REFLECT_101, the default):      *)
(* index i of an axis of length n, mirrored about the first and the last   *)
(* sample without repeating them; an axis of length 1 gives 0.             *)
RECURSIVE Reflect101(_, _)
Reflect101(i, n) ==
    IF n = 1 THEN 0
    ELSE IF i < 0 THEN Reflect101(-i, n)
    ELSE IF i >= n THEN Reflect101(2 * (n - 1) - i, n)
    ELSE i

(* Variant of GaussianKernel with every coefficient rounded on its own:    *)
(* the coefficients add up to 255, not 256.                                *)
GaussianKernel_Unnormalised ==
    <<0, 1, 2, 4, 7, 11, 15, 20, 25, 28, 29, 28, 25, 20, 15, 11, 7, 4, 2, 1, 0>>

(* The 21-tap Gaussian kernel GaussianBlur derives for sigma = 0:          *)
(* sigma = 0.3 * ((21 - 1) * 0.5 - 1) + 0.8 = 3.5, coefficients            *)
(* exp(-x^2 / (2 sigma^2)) normalised and rounded to 8 fractional bits     *)
(* with the rounding error carried from the edges to the centre, so that   *)
(* the coefficients add up to exactly 2^KernelBits.                        *)
KernelBits == 8
GaussianKernel ==
    <<0, 2, 2, 4, 6, 11, 15, 20, 25, 28, 30, 28, 25, 20, 15, 11, 6, 4, 2, 2, 0>>

(* One output sample of the row filter and of the column filter: the sum  *)
(* over taps 1..i of kernel[tap] * source sample, the source index         *)
(* mirrored at the borders.  rows maps a position to the row filter's      *)
(* fixed-point output there (KernelBits fractional bits after the rows,    *)
(* twice as many after the columns).                                       *)
RECURSIVE RowFilter(_, _, _)
RowFilter(src, p, i) ==
    IF i = 0 THEN 0
    ELSE GaussianKernel[i]
            * src.px[<<p[1], Reflect101(p[2] + i - 1 - KSize \div 2, src.w)>>][1]
         + RowFilter(src, p, i - 1)

RECURSIVE ColumnFilter(_, _, _, _)
ColumnFilter(rows, h, p, i) ==
    IF i = 0 THEN 0
    ELSE GaussianKernel[i]
            * rows[<<Reflect101(p[1] + i - 1 - KSize \div 2, h), p[2]>>]
         + ColumnFilter(rows, h, p, i - 1)

(* cv2.GaussianBlur(src, (KSize, KSize), sigmaX=0, sigmaY=0) on uint8:     *)
(* a separable filter in fixed point, rows first, then columns, the        *)
(* result rounded to the nearest integer.                                  *)
ColumnPass(rows, h, w) ==
    Plane(h, w, [p \in Positions(h, w) |->
                    (ColumnFilter(rows, h, p, KSize) + 2 ^ (2 * KernelBits - 1))
                       \div 2 ^ (2 * KernelBits)])

GaussianBlur(src) ==
    ColumnPass(Array([p \in Positions(src.h, src.w) |-> RowFilter(src, p, KSize)]),
               src.h, src.w)

(* saturate_cast<uchar>                                                    *)
Saturate(v) == IF v < 0 THEN 0 ELSE IF v > MaxVal THEN MaxVal ELSE v

(* Variant of DivideSample that divides by max(src2, 1) and truncates.     *)
DivideSample_Guarded(a, b, scale) == Saturate((a * scale) \div Max(b, 1))

(* One sample of cv2.divide(src1, src2, scale) on integer arrays:          *)
(* saturate(round(src1 * scale / src2)), and 0 where src2 is 0.  With      *)
(* scale = 256 and src2 < 256 the quotient is never halfway between two    *)
(* integers, so the rounding mode of ties does not matter.                 *)
DivideSample(a, b, scale) ==
    IF b = 0 THEN 0 ELSE Saturate((2 * a * scale + b) \div (2 * b))

Divide(src1, src2, scale) ==
    Plane(src1.h, src1.w,
          [p \in Positions(src1.h, src1.w) |->
              DivideSample(src1.px[p][1], src2.px[p][1], scale)])

(* Variant of DivideRaises in which a zero divisor is an error too.        *)
DivideRaises_ZeroDivisor(src1, src2) ==
    \/ src1.h # src2.h \/ src1.w # src2.w \/ src1.ch # src2.ch
    \/ \E p \in Positions(src2.h, src2.w) : src2.px[p][1] = 0

(* cv2.divide raises cv2.error when its operands differ in size or in      *)
(* channel count; a zero divisor is no error.                              *)
DivideRaises(src1, src2) ==
    src1.h # src2.h \/ src1.w # src2.w \/ src1.ch # src2.ch

(* Variant of Merge that drops the last plane.                             *)
Merge_DropLast(planes) ==
    Image(planes[1].h, planes[1].w, Len(planes) - 1,
          [p \in Positions(planes[1].h, planes[1].w) |->
              [i \in 1 .. Len(planes) - 1 |-> planes[i].px[p][1]]])

(* cv2.merge(planes): the planes become the channels of one image.         *)
Merge(planes) ==
    Image(planes[1].h, planes[1].w, Len(planes),
          [p \in Positions(planes[1].h, planes[1].w) |->
              [i \in 1 .. Len(planes) |-> planes[i].px[p][1]]])

-----------------------------------------------------------------------------
(* Inputs of the sketch script.                                            *)
PhotoPath == Path("pictures", "photo", ".png")

SketchGray == { <<0>>, <<1>>, <<100>>, <<255>> }
SketchBGR == { <<0, 0, 0>>, <<1, 1, 1>>, <<100, 100, 100>>, <<255, 255, 255>>,
               <<10, 200, 30>> }
SketchAlphas == { 7, 255 }

SketchImages ==
    SpotImages(1, SketchGray)
    \cup SpotImages(3, SketchBGR)
    \cup SpotImages(4, WithAlpha(SketchBGR, SketchAlphas))
    \cup SpotImages(2, { <<100, 255>> })

SketchDisks == { Missing, Undecodable } \cup { Decodable(im) : im \in SketchImages }

-----------------------------------------------------------------------------
(* picture_to_sketch.py                                                    *)

InitSketch ==
    /\ pc = "s_select_file"
    /\ file_path = NoPath
    /\ disk = Missing
    /\ color = None
    /\ threshold = DefaultThreshold
    /\ img = None
    /\ alpha = None
    /\ gray = None
    /\ bichrome = None
    /\ inverted = None
    /\ blurred = None
    /\ inverted_blurred = None
    /\ result = None
    /\ sketch = None
    /\ written = None
    /\ printed = <<>>
    /\ raised = ""

(* Lines 85-90, 95-96: the file dialog, then the call.                     *)
S_SelectFile ==
    /\ pc = "s_select_file"
    /\ \/ /\ file_path' = NoPath
          /\ disk' = Missing
          /\ printed' = Append(printed, "No file selected")
          /\ pc' = "exit"
       \/ /\ file_path' = PhotoPath
          /\ disk' \in SketchDisks
          /\ printed' = printed
          /\ pc' = "s_check_exists"
    /\ UNCHANGED <<color, threshold, img, alpha, gray, bichrome, inverted,
                   blurred, inverted_blurred, result, sketch, written, raised>>

(* Lines 29-31: a missing file is printed and the function returns.        *)
S_CheckExists ==
    /\ pc = "s_check_exists"
    /\ IF disk.kind = "missing"
       THEN /\ printed' = Append(printed, "Error: The file does not exist")
            /\ pc' = "exit"
       ELSE /\ printed' = printed
            /\ pc' = "s_read"
    /\ UNCHANGED <<file_path, disk, color, threshold, img, alpha, gray, bichrome,
                   inverted, blurred, inverted_blurred, result, sketch, written,
                   raised>>

(* Lines 34-39.                                                            *)
S_Read ==
    /\ pc = "s_read"
    /\ img' = disk.data
    /\ IF disk.data = None
       THEN /\ printed' = Append(printed, "Error: Unable to read the image")
            /\ pc' = "exit"
       ELSE /\ printed' = printed
            /\ pc' = "s_channels"
    /\ UNCHANGED <<file_path, disk, color, threshold, alpha, gray, bichrome,
                   inverted, blurred, inverted_blurred, result, sketch, written,
                   raised>>

(* Variant of S_Channels that takes the first channel of an image with    *)
(* any other channel count as its luma and goes on.                        *)
S_Channels_FirstChannel ==
    /\ pc = "s_channels"
    /\ LET im == Val(img) IN
       /\ gray' = Some(IF im.ch = 1 THEN im
                       ELSE IF im.ch \in {3, 4} THEN cvtColorBGR2GRAY(Channels(im, 0, 3))
                       ELSE Channel_OffByOne(im, 1))
       /\ alpha' = IF im.ch = 4 THEN Some(Channel_OffByOne(im, 4)) ELSE alpha
    /\ pc' = "s_invert"
    /\ UNCHANGED <<file_path, disk, color, threshold, img, bichrome, inverted,
                   blurred, inverted_blurred, result, sketch, written, printed,
                   raised>>

(* Lines 42-53: the luma plane by channel count; any other count is        *)
(* printed and the function returns.                                       *)
S_Channels ==
    /\ pc = "s_channels"
    /\ LET im == Val(img) IN
       IF im.ch = 1
       THEN /\ gray' = Some(im)
            /\ alpha' = alpha
            /\ printed' = printed
            /\ pc' = "s_invert"
       ELSE IF im.ch = 3
       THEN /\ gray' = Some(cvtColorBGR2GRAY(im))
            /\ alpha' = alpha
            /\ printed' = printed
            /\ pc' = "s_invert"
       ELSE IF im.ch = 4
       THEN /\ gray' = Some(cvtColorBGR2GRAY(Channels(im, 0, 3)))
            /\ alpha' = Some(Channel(im, 3))
            /\ printed' = printed
            /\ pc' = "s_invert"
       ELSE /\ gray' = gray
            /\ alpha' = alpha
            /\ printed' = Append(printed, "Error: Unsupported image format")
            /\ pc' = "exit"
    /\ UNCHANGED <<file_path, disk, color, threshold, img, bichrome, inverted,
                   blurred, inverted_blurred, result, sketch, written, raised>>

(* Line 56.                                                                *)
S_Invert ==
    /\ pc = "s_invert"
    /\ inverted' = Some(BitwiseNot(Val(gray)))
    /\ pc' = "s_blur"
    /\ UNCHANGED <<file_path, disk, color, threshold, img, alpha, gray, bichrome,
                   blurred, inverted_blurred, result, sketch, written, printed,
                   raised>>

(* Line 59.                                                                *)
S_Blur ==
    /\ pc = "s_blur"
    /\ blurred' = Some(GaussianBlur(Val(inverted)))
    /\ pc' = "s_invert_blurred"
    /\ UNCHANGED <<file_path, disk, color, threshold, img, alpha, gray, bichrome,
                   inverted, inverted_blurred, result, sketch, written, printed,
                   raised>>

(* Line 62.                                                                *)
S_InvertBlurred ==
    /\ pc = "s_invert_blurred"
    /\ inverted_blurred' = Some(BitwiseNot(Val(blurred)))
    /\ pc' = "s_divide"
    /\ UNCHANGED <<file_path, disk, color, threshold, img, alpha, gray, bichrome,
                   inverted, blurred, result, sketch, written, printed, raised>>

(* Line 65; an exception of cv2.divide leaves photo_to_sketch and reaches  *)
(* the except clause of select_image (lines 93-94).                        *)
S_Divide ==
    /\ pc = "s_divide"
    /\ IF DivideRaises(Val(gray), Val(inverted_blurred))
       THEN /\ raised' = "cv2.error"
            /\ sketch' = sketch
            /\ printed' = Append(printed, "An error occurred")
            /\ pc' = "exit"
       ELSE /\ raised' = raised
            /\ sketch' = Some(Divide(Val(gray), Val(inverted_blurred), DivideScale))
            /\ printed' = printed
            /\ pc' = "s_merge"
    /\ UNCHANGED <<file_path, disk, color, threshold, img, alpha, gray, bichrome,
                   inverted, blurred, inverted_blurred, result, written>>

(* Lines 68-69: only a 4-channel input is merged with its alpha plane.     *)
S_Merge ==
    /\ pc = "s_merge"
    /\ IF Val(img).ch = 4
       THEN sketch' = Some(Merge(<<Val(sketch), Val(sketch), Val(sketch), Val(alpha)>>))
       ELSE sketch' = sketch
    /\ pc' = "s_write"
    /\ UNCHANGED <<file_path, disk, color, threshold, img, alpha, gray, bichrome,
                   inverted, blurred, inverted_blurred, result, written, printed,
                   raised>>

(* Lines 72-79: the output path, cv2.imwrite, the message; the call        *)
(* returns and the script ends.                                            *)
S_Write ==
    /\ pc = "s_write"
    /\ written' = Some([path |-> OutputPath(file_path, "_drawing"),
                        image |-> Val(sketch)])
    /\ printed' = Append(printed, "Sketch image saved")
    /\ pc' = "exit"
    /\ UNCHANGED <<file_path, disk, color, threshold, img, alpha, gray, bichrome,
                   inverted, blurred, inverted_blurred, result, sketch, raised>>

NextSketch ==
    \/ S_SelectFile
    \/ S_CheckExists
    \/ S_Read
    \/ S_Channels
    \/ S_Invert
    \/ S_Blur
    \/ S_InvertBlurred
    \/ S_Divide
    \/ S_Merge
    \/ S_Write

SpecSketch == InitSketch /\ [][NextSketch]_vars

-----------------------------------------------------------------------------
(* Properties of picture_to_bichrome.py (checked under SpecBichrome).      *)

Black == <<0, 0, 0>>
Green == <<0, 255, 0>>
MissingAlphaError == "ValueError: The input image must have an alpha channel"

(* The (R, G, B) colour of a pixel stored as (B, G, R, A).                 *)
RGBOf(pixel) == <<pixel[3], pixel[2], pixel[1]>>

PositionsOf(im) == Positions(im.h, im.w)

(* The transform got past line 67: result is the image that is written.    *)
BichromeFinished == pc = "b_write" \/ (pc = "exit" /\ written # None)

(* C1: for every 4-channel input, whatever the accent colour and the       *)
(* threshold, the alpha channel of the bichrome output equals the input    *)
(* alpha channel at every pixel, dark or light; the written file holds     *)
(* that output.                                                            *)
C1_AlphaPreserved ==
    /\ BichromeFinished =>
          /\ Val(result).h = Val(img).h
          /\ Val(result).w = Val(img).w
          /\ Val(result).ch = 4
          /\ \A p \in PositionsOf(Val(img)) :
                Val(result).px[p][4] = Val(img).px[p][4]
    /\ written # None => Val(written).image = Val(result)

(* A written output with a dark and a light pixel whose input alpha is not *)
(* the 255 the mask assignments put there.                                 *)
C1_Witness ==
    /\ pc = "exit"
    /\ written # None
    /\ \E p, q \in PositionsOf(Val(img)) :
          /\ Val(bichrome).px[p][1] = 0
          /\ Val(img).px[p][4] # MaxVal
          /\ Val(bichrome).px[q][1] = MaxVal
          /\ Val(img).px[q][4] # MaxVal

(* C2: for every 4-channel input, accent colour and threshold, each pixel  *)
(* of the bichrome output is black or the accent colour, and the two mask  *)
(* assignments leave no pixel unassigned (each assigned pixel carries the  *)
(* alpha 255 of the assignment until line 67 replaces it).                 *)
C2_TwoColors ==
    /\ result # None =>
          \A p \in PositionsOf(Val(result)) :
             RGBOf(Val(result).px[p]) \in {Black, Val(color)}
    /\ pc = "b_apply_alpha" =>
          \A p \in PositionsOf(Val(result)) : Val(result).px[p][4] = MaxVal
    /\ written # None =>
          \A p \in PositionsOf(Val(written).image) :
             RGBOf(Val(written).image.px[p]) \in {Black, Val(color)}

(* A written output that holds both colours, the accent colour being one   *)
(* that differs from its own reverse.                                      *)
C2_Witness ==
    /\ pc = "exit"
    /\ written # None
    /\ Val(color) = <<255, 128, 1>>
    /\ \E p, q \in PositionsOf(Val(result)) :
          /\ RGBOf(Val(written).image.px[p]) = Black
          /\ RGBOf(Val(written).image.px[q]) = Val(color)

(* C3: a pixel gets the accent colour when its luma is strictly greater    *)
(* than the threshold and black when its luma is at most the threshold (a  *)
(* luma equal to the threshold gives black); a pixel of another colour     *)
(* than black has a luma above the threshold.  The luma samples            *)
(* 100, 150, 200, 250 with threshold 127 and accent (0, 255, 0) give       *)
(* black, green, green, green.                                             *)
C3_ThresholdRule ==
    /\ result # None =>
          \A p \in PositionsOf(Val(result)) :
             LET luma == Val(gray).px[p][1]
                 rgb == RGBOf(Val(result).px[p])
             IN  /\ luma > threshold => rgb = Val(color)
                 /\ luma <= threshold => rgb = Black
                 /\ rgb # Black => luma > threshold
    /\ (written # None /\ Val(img) = ExampleImage /\ threshold = 127
          /\ Val(color) = Green) =>
          /\ [p \in Positions(2, 2) |-> Val(gray).px[p][1]]
                = (<<0, 0>> :> 100) @@ (<<0, 1>> :> 150)
                  @@ (<<1, 0>> :> 200) @@ (<<1, 1>> :> 250)
          /\ [p \in Positions(2, 2) |-> RGBOf(Val(written).image.px[p])]
                = (<<0, 0>> :> Black) @@ (<<0, 1>> :> Green)
                  @@ (<<1, 0>> :> Green) @@ (<<1, 1>> :> Green)

(* The example, written.                                                   *)
C3_Witness ==
    /\ pc = "exit"
    /\ written # None
    /\ Val(img) = ExampleImage
    /\ threshold = 127
    /\ Val(color) = Green

(* C4: on an image without an alpha channel (3 channels, 2-D, or any count *)
(* other than 4) the transform raises the missing-alpha error; whenever    *)
(* the transform fails (missing file, undecodable file, no alpha) neither  *)
(* the grayscale plane, nor the thresholded plane, nor the result exists   *)
(* and nothing is written.                                                 *)
C4_MissingAlphaFails ==
    /\ (img # None /\ pc # "b_check_alpha") =>
          (Val(img).ch # 4 <=> raised = MissingAlphaError)
    /\ (raised # "" \/ disk.kind # "image" \/ Val(disk.data).ch # 4) =>
          /\ alpha = None
          /\ gray = None
          /\ bichrome = None
          /\ result = None
          /\ written = None
    /\ (pc = "exit" /\ color # None /\ disk.kind # "image") => raised # ""

(* A 3-channel image was refused and the script has ended.                 *)
C4_Witness ==
    /\ pc = "exit"
    /\ img # None
    /\ Val(img).ch = 3
    /\ raised = MissingAlphaError
    /\ written = None

-----------------------------------------------------------------------------
(* Properties of picture_to_sketch.py (checked under SpecSketch).          *)

(* Line 65 has been executed: sketch holds the quotient (in its first      *)
(* channel once line 69 has merged it).                                    *)
SketchDivided == pc \in {"s_merge", "s_write"} \/ (pc = "exit" /\ written # None)

SketchMerged == pc = "s_write" \/ (pc = "exit" /\ written # None)

SampleOf(plane, p) == plane.px[p][1]

(* C5 as stated: the output has the width, the height and the channel      *)
(* count of the input, for 1, 3 and 4 channels.                            *)
C5_SameShape ==
    written # None =>
       /\ Val(written).image.h = Val(img).h
       /\ Val(written).image.w = Val(img).w
       /\ Val(written).image.ch = Val(img).ch

(* C5, amended: the output has the width and the height of the input; a    *)
(* 4-channel input gives a 4-channel output, a 1-channel and a 3-channel   *)
(* input give a 1-channel output, the plane cv2.divide produced.           *)
C5_SameSizeGrayUnlessAlpha ==
    written # None =>
       LET out == Val(written).image
           divided == Divide(Val(gray), Val(inverted_blurred), DivideScale)
       IN  /\ out.h = Val(img).h
           /\ out.w = Val(img).w
           /\ Val(img).ch \in {1, 3, 4}
           /\ out.ch = IF Val(img).ch = 4 THEN 4 ELSE 1
           /\ \A p \in PositionsOf(out) : Len(out.px[p]) = out.ch
           /\ Val(img).ch # 4 => out = divided

(* A 3-channel input has been written as a 1-channel image.                *)
C5_Witness ==
    /\ pc = "exit"
    /\ written # None
    /\ Val(img).ch = 3
    /\ Val(img).h * Val(img).w > 1
    /\ Val(written).image.ch = 1

(* C6 as stated: sketch[p] = clamp(luma[p] * 256 / max(invBlurred[p], 1),  *)
(* 0, 255), whichever way the quotient is rounded to an integer.           *)
C6_GuardedQuotient ==
    SketchDivided =>
       \A p \in PositionsOf(Val(gray)) :
          LET q == SampleOf(Val(gray), p) * 256
              d == Max(SampleOf(Val(inverted_blurred), p), 1)
          IN  SampleOf(Val(sketch), p) \in
                 { Min(255, q \div d), Min(255, (q + d - 1) \div d) }

(* C6, amended: invBlurred = 255 - blur(255 - luma); where invBlurred[p]   *)
(* is 0 the sketch sample is 0, whatever the luma; elsewhere it is         *)
(* luma[p] * 256 / invBlurred[p] rounded to the nearest integer and        *)
(* clamped to 255.                                                         *)
C6_QuotientOrZero ==
    SketchDivided =>
       /\ Val(inverted_blurred) = BitwiseNot(GaussianBlur(BitwiseNot(Val(gray))))
       /\ \A p \in PositionsOf(Val(gray)) :
             LET q == SampleOf(Val(gray), p) * 256
                 d == SampleOf(Val(inverted_blurred), p)
                 s == SampleOf(Val(sketch), p)
             IN  IF d = 0 THEN s = 0
                 ELSE IF 2 * q >= 509 * d THEN s = 255
                 ELSE (2 * s - 1) * d <= 2 * q /\ 2 * q <= (2 * s + 1) * d

(* A pixel with luma >= 1 and invBlurred 0 has been divided.               *)
C6_Witness ==
    /\ SketchDivided
    /\ \E p \in PositionsOf(Val(gray)) :
          /\ SampleOf(Val(gray), p) >= 1
          /\ SampleOf(Val(inverted_blurred), p) = 0
          /\ SampleOf(Val(sketch), p) = 0

(* A pixel whose quotient is neither 0 nor saturated, and is not a whole   *)
(* number, has been divided.                                               *)
C6_RoundedSample ==
    /\ SketchDivided
    /\ \E p \in PositionsOf(Val(gray)) :
          /\ SampleOf(Val(sketch), p) \in 1 .. 254
          /\ (SampleOf(Val(gray), p) * 256) % SampleOf(Val(inverted_blurred), p) # 0

(* C7: for every input, also where the inverted-blurred denominator is 0,  *)
(* the divide step raises no error and every output sample is in 0..255.   *)
C7_DivideSafe ==
    /\ raised = ""
    /\ (pc = "exit" /\ inverted_blurred # None) => written # None
    /\ sketch # None =>
          \A p \in PositionsOf(Val(sketch)) :
             \A i \in 1 .. Len(Val(sketch).px[p]) :
                Val(sketch).px[p][i] \in 0 .. 255
    /\ written # None => Val(written).image = Val(sketch)

(* An input whose denominator is 0 at some pixel has been written.         *)
C7_Witness ==
    /\ pc = "exit"
    /\ written # None
    /\ \E p \in PositionsOf(Val(gray)) : SampleOf(Val(inverted_blurred), p) = 0

(* The whole pipeline of lines 50-65 on the colour channels alone.         *)
SketchOfBGR(bgr) ==
    LET luma == cvtColorBGR2GRAY(bgr)
    IN  Divide(luma, BitwiseNot(GaussianBlur(BitwiseNot(luma))), DivideScale)

(* C8: for every 4-channel input the fourth output channel is the input    *)
(* alpha at every pixel and the three colour channels of a pixel are equal *)
(* to one another: they are the sketch value computed from the input's     *)
(* three colour channels alone.                                            *)
C8_AlphaCopied ==
    (SketchMerged /\ Val(img).ch = 4) =>
       LET out == Val(sketch)
           fromBGR == SketchOfBGR(Channels(Val(img), 0, 3))
       IN  /\ out.ch = 4
           /\ \A p \in PositionsOf(Val(img)) :
                 /\ Len(out.px[p]) = 4
                 /\ out.px[p][4] = Val(img).px[p][4]
                 /\ out.px[p][1] = out.px[p][2]
                 /\ out.px[p][2] = out.px[p][3]
                 /\ out.px[p][1] = SampleOf(fromBGR, p)

(* A 4-channel input whose alpha differs from pixel to pixel and from the  *)
(* sketch value has been written.                                          *)
C8_Witness ==
    /\ pc = "exit"
    /\ written # None
    /\ Val(img).ch = 4
    /\ \E p, q \in PositionsOf(Val(img)) :
          /\ Val(img).px[p][4] # Val(img).px[q][4]
          /\ Val(written).image.px[p][4] # Val(written).image.px[p][1]

(* C9 as stated: a channel count other than 1, 3, 4 makes the transform    *)
(* fail with an error that reaches its caller, before any pixel            *)
(* processing, and nothing is written.                                     *)
C9_UnsupportedRaised ==
    (pc = "exit" /\ img # None /\ Val(img).ch \notin {1, 3, 4}) =>
       /\ raised # ""
       /\ written = None

(* C9, amended: a channel count other than 1, 3, 4 makes the transform     *)
(* print its unsupported-format message and return normally, no exception  *)
(* reaching the caller; no inversion, blur or division takes place and     *)
(* nothing is written.                                                     *)
C9_UnsupportedPrinted ==
    (img # None /\ Val(img).ch \notin {1, 3, 4}) =>
       /\ pc \in {"s_channels", "exit"}
       /\ pc = "exit" => printed = <<"Error: Unsupported image format">>
       /\ raised = ""
       /\ gray = None
       /\ inverted = None
       /\ blurred = None
       /\ inverted_blurred = None
       /\ sketch = None
       /\ written = None

(* A 2-channel image was refused and the script has ended.                 *)
C9_Witness ==
    /\ pc = "exit"
    /\ img # None
    /\ Val(img).ch = 2
    /\ written = None

Uniform(plane, v) == \A p \in PositionsOf(plane) : SampleOf(plane, p) = v

(* C10: an image whose every luma sample is v has the blurred inverted     *)
(* plane 255 - v and the denominator v at every pixel, and every output    *)
(* sample equals clamp(v * 256 / max(v, 1), 0, 255).                       *)
C10_UniformStaysUniform ==
    \A v \in 0 .. 255 :
       (SketchDivided /\ Uniform(Val(gray), v)) =>
          /\ Uniform(Val(blurred), 255 - v)
          /\ Uniform(Val(inverted_blurred), v)
          /\ Uniform(Val(sketch), Min(255, Max(0, (v * 256) \div Max(v, 1))))

(* A uniform image of more than one pixel and of a luma strictly between   *)
(* 0 and 255 has been divided.                                             *)
C10_Witness ==
    /\ SketchDivided
    /\ Val(gray).h * Val(gray).w > 1
    /\ \E v \in 1 .. 254 : Uniform(Val(gray), v)

====
